---- MODULE Spec2Model ----
(***************************************************************************)
(* Model of the caelum-revelat filter DSL: the expression parser (E), the  *)
(* group assembler (G) and the parameter builder (filterParams).           *)
(*                                                                         *)
(* JavaScript strings are sequences of one-character strings.  JavaScript  *)
(* values are records tagged by the field t.                               *)
(***************************************************************************)
EXTENDS Integers, Sequences, FiniteSets, TLC

\* pc      "idle" before a call, "done" once it has returned or thrown
\* fn      the function called: "E", "G", "filterParams",
\*         "isBinaryFilterExpression" or "none"
\* strings the literal segments of the template (the TemplateStringsArray)
\* values  the interpolated values of the template, the arguments of a
\*         plain call
\* result  what the call returned or threw
VARIABLES pc, fn, strings, values, result

vars == <<pc, fn, strings, values, result>>

(***************************************************************************)
(* Bounds                                                                  *)
(***************************************************************************)
\* largest number of interpolated values of a template
MaxValues == 2
\* largest array length / number of positional indices of a sample value
MaxElems == 3

(***************************************************************************)
(* JavaScript values                                                       *)
(***************************************************************************)
Undefined == [t |-> "undefined"]
Null == [t |-> "null"]
Str(s) == [t |-> "string", s |-> s]
Num(n) == [t |-> "number", n |-> n]
Bool(b) == [t |-> "boolean", b |-> b]
Arr(elems) == [t |-> "array", elems |-> elems]
Obj(props) == [t |-> "object", props |-> props]

\* typeof value
TypeOf(v) ==
    IF v.t \in {"null", "array", "object"} THEN "object" ELSE v.t

\* Array.isArray(value)
IsArray(v) == v.t = "array"

\* the property name of an array index
IndexNames == <<"0", "1", "2", "3", "4", "5">>

\* name in value, for a value whose typeof is "object" and that is not null
HasProp(v, name) ==
    IF v.t = "array"
    THEN name = "length" \/ \E i \in 1..Len(v.elems) : IndexNames[i] = name
    ELSE name \in DOMAIN v.props

\* value[name]
GetProp(v, name) ==
    IF v.t = "array"
    THEN IF name = "length" THEN Num(Len(v.elems))
         ELSE IF \E i \in 1..Len(v.elems) : IndexNames[i] = name
              THEN v.elems[CHOOSE i \in 1..Len(v.elems) : IndexNames[i] = name]
              ELSE Undefined
    ELSE IF name \in DOMAIN v.props THEN v.props[name] ELSE Undefined

(***************************************************************************)
(* Characters                                                              *)
(***************************************************************************)
\* the class \w of the regular expression
WordChars ==
    {"a", "b", "c", "d", "e", "f", "g", "h", "i", "j", "k", "l", "m",
     "n", "o", "p", "q", "r", "s", "t", "u", "v", "w", "x", "y", "z",
     "A", "B", "C", "D", "E", "F", "G", "H", "I", "J", "K", "L", "M",
     "N", "O", "P", "Q", "R", "S", "T", "U", "V", "W", "X", "Y", "Z",
     "0", "1", "2", "3", "4", "5", "6", "7", "8", "9", "_"}

\* the class \s of the regular expression (the subset the samples use)
SpaceChars == {" ", "\t", "\n", "\r"}

IsWord(c) == c \in WordChars
IsSpace(c) == c \in SpaceChars

(***************************************************************************)
(* binary-filter-expression.ts                                             *)
(***************************************************************************)
OPERATORS ==
    << <<"s", "w">>, <<"e", "w">>, <<"c", "t">>, <<"e", "q">>,
       <<"g", "t">>, <<"g", "t", "e">>, <<"l", "t">>, <<"l", "t", "e">>,
       <<"i", "n">>, <<"b", "t">> >>

\* the literal of the (?<not>not_)? group
NOT_MARK == <<"n", "o", "t", "_">>

\* OPERATORS.includes(value), value a string or undefined
isOperator(value) ==
    /\ value.t = "string"
    /\ \E o \in 1..Len(OPERATORS) : OPERATORS[o] = value.s

\* s has the token tok at position p
LooksAt(s, p, tok) ==
    /\ p + Len(tok) - 1 <= Len(s)
    /\ SubSeq(s, p, p + Len(tok) - 1) = tok

\* the character at position p is a word character (FALSE off the ends)
WordAt(s, p) == p >= 1 /\ p <= Len(s) /\ IsWord(s[p])

\* \b holds between the characters p-1 and p
Boundary(s, p) == WordAt(s, p - 1) # WordAt(s, p)

\* TailMatches with the \b after the operator lost
TailMatches_NoEndBoundary(s, k, neg, o) ==
    LET m == IF neg THEN k + Len(NOT_MARK) ELSE k
    IN  /\ Boundary(s, k)
        /\ neg => LooksAt(s, k, NOT_MARK)
        /\ LooksAt(s, m, OPERATORS[o])

\* the rest of EXPRESSION_RE at position k: \b, the optional not_ (taken
\* when neg), the operator OPERATORS[o], \b
TailMatches(s, k, neg, o) ==
    LET m == IF neg THEN k + Len(NOT_MARK) ELSE k
    IN  /\ Boundary(s, k)
        /\ neg => LooksAt(s, k, NOT_MARK)
        /\ LooksAt(s, m, OPERATORS[o])
        /\ Boundary(s, m + Len(OPERATORS[o]))

\* Matches with the key read as \w: one character, the + lost
Matches_OneCharKey(s) ==
    UNION { UNION {
        { [i |-> i, j |-> i + 1, k |-> k, neg |-> neg, o |-> o] :
            neg \in BOOLEAN, o \in 1..Len(OPERATORS) }
        : k \in { k \in (i + 2)..(Len(s) + 1) :
                    \A p \in (i + 1)..(k - 1) : IsSpace(s[p]) } }
        : i \in { i \in 1..Len(s) : IsWord(s[i]) } }

\* Matches with the whitespace read as \s: one character, the +? lost
Matches_OneSpace(s) ==
    UNION { UNION {
        { [i |-> i, j |-> j, k |-> j + 1, neg |-> neg, o |-> o] :
            neg \in BOOLEAN, o \in 1..Len(OPERATORS) }
        : j \in { j \in (i + 1)..Len(s) :
                    /\ \A p \in i..(j - 1) : IsWord(s[p])
                    /\ IsSpace(s[j]) } }
        : i \in 1..Len(s) }

\* every way EXPRESSION_RE matches s: the key \w+? is s[i..j-1], the
\* whitespace \s+? is s[j..k-1], the rest is at k
Matches(s) ==
    UNION { UNION { UNION {
        { [i |-> i, j |-> j, k |-> k, neg |-> neg, o |-> o] :
            neg \in BOOLEAN, o \in 1..Len(OPERATORS) }
        : k \in { k \in (j + 1)..(Len(s) + 1) :
                    \A p \in j..(k - 1) : IsSpace(s[p]) } }
        : j \in { j \in (i + 1)..Len(s) : \A p \in i..(j - 1) : IsWord(s[p]) } }
        : i \in 1..Len(s) }

\* TriedBefore with the starts tried from the right
TriedBefore_Rightmost(a, b) ==
    \/ a.i > b.i
    \/ a.i = b.i /\ a.j < b.j
    \/ a.i = b.i /\ a.j = b.j /\ a.k < b.k
    \/ a.i = b.i /\ a.j = b.j /\ a.k = b.k /\ a.neg /\ ~b.neg
    \/ a.i = b.i /\ a.j = b.j /\ a.k = b.k /\ a.neg = b.neg /\ a.o < b.o

\* the order in which the backtracking matcher tries the ways to match:
\* leftmost start, lazy \w+?, lazy \s+?, not_ taken before not_ skipped,
\* the alternatives of the operator from left to right
TriedBefore(a, b) ==
    \/ a.i < b.i
    \/ a.i = b.i /\ a.j < b.j
    \/ a.i = b.i /\ a.j = b.j /\ a.k < b.k
    \/ a.i = b.i /\ a.j = b.j /\ a.k = b.k /\ a.neg /\ ~b.neg
    \/ a.i = b.i /\ a.j = b.j /\ a.k = b.k /\ a.neg = b.neg /\ a.o < b.o

\* EXPRESSION_RE.exec(expression)?.groups ?? {}
ExecGroups(expression) ==
    LET found == { m \in Matches(expression) :
                     TailMatches(expression, m.k, m.neg, m.o) }
    IN  IF found = {}
        THEN [key |-> Undefined, not |-> Undefined, operator |-> Undefined]
        ELSE LET m == CHOOSE a \in found :
                        \A b \in found : a = b \/ TriedBefore(a, b)
             IN  [key |-> Str(SubSeq(expression, m.i, m.j - 1)),
                  not |-> IF m.neg THEN Str(NOT_MARK) ELSE Undefined,
                  operator |-> Str(OPERATORS[m.o])]

\* the outcome of a call
Return(v) == [kind |-> "return", value |-> v]
Throw(message, detail) == [kind |-> "throw", message |-> message, detail |-> detail]

\* a value is truthy
Truthy(v) ==
    CASE v.t = "undefined" -> FALSE
      [] v.t = "null" -> FALSE
      [] v.t = "string" -> v.s # <<>>
      [] v.t = "number" -> v.n # 0
      [] v.t = "boolean" -> v.b
      [] OTHER -> TRUE

IsStringOp(op) == op \in {OPERATORS[1], OPERATORS[2], OPERATORS[3]}
IsScalarOp(op) ==
    op \in {OPERATORS[4], OPERATORS[5], OPERATORS[6], OPERATORS[7], OPERATORS[8]}

\* acceptableValue with "ct" fallen through to the scalar operators
acceptableValue_CtScalar(operator, value) ==
    CASE operator \in {OPERATORS[1], OPERATORS[2]} ->
           IF TypeOf(value) = "string"
           THEN Return(Bool(TRUE))
           ELSE Throw("The operator requires a string value", operator)
      [] IsScalarOp(operator) \/ operator = OPERATORS[3] ->
           IF \/ TypeOf(value) = "string"
              \/ TypeOf(value) = "number"
              \/ TypeOf(value) = "boolean"
              \/ value = Null
           THEN Return(Bool(TRUE))
           ELSE Throw("The operator was given a complex value", operator)
      [] operator = OPERATORS[9] ->
           IF IsArray(value) /\ Len(value.elems) > 0
           THEN Return(Bool(TRUE))
           ELSE Throw("The \"in\" operator requires an array value of non-zero length",
                      operator)
      [] operator = OPERATORS[10] ->
           IF /\ TypeOf(value) = "object"
              /\ value # Null
              /\ HasProp(value, "0")
              /\ HasProp(value, "1")
           THEN Return(Bool(TRUE))
           ELSE Throw("The \"bt\" operator requires an array-like value containing exactly two constants",
                      operator)

\* acceptableValue with the test value === null lost
acceptableValue_NoNull(operator, value) ==
    CASE IsStringOp(operator) ->
           IF TypeOf(value) = "string"
           THEN Return(Bool(TRUE))
           ELSE Throw("The operator requires a string value", operator)
      [] IsScalarOp(operator) ->
           IF \/ TypeOf(value) = "string"
              \/ TypeOf(value) = "number"
              \/ TypeOf(value) = "boolean"
           THEN Return(Bool(TRUE))
           ELSE Throw("The operator was given a complex value", operator)
      [] operator = OPERATORS[9] ->
           IF IsArray(value) /\ Len(value.elems) > 0
           THEN Return(Bool(TRUE))
           ELSE Throw("The \"in\" operator requires an array value of non-zero length",
                      operator)
      [] operator = OPERATORS[10] ->
           IF /\ TypeOf(value) = "object"
              /\ value # Null
              /\ HasProp(value, "0")
              /\ HasProp(value, "1")
           THEN Return(Bool(TRUE))
           ELSE Throw("The \"bt\" operator requires an array-like value containing exactly two constants",
                      operator)

\* acceptableValue with the test value.length > 0 lost
acceptableValue_EmptyIn(operator, value) ==
    CASE IsStringOp(operator) ->
           IF TypeOf(value) = "string"
           THEN Return(Bool(TRUE))
           ELSE Throw("The operator requires a string value", operator)
      [] IsScalarOp(operator) ->
           IF \/ TypeOf(value) = "string"
              \/ TypeOf(value) = "number"
              \/ TypeOf(value) = "boolean"
              \/ value = Null
           THEN Return(Bool(TRUE))
           ELSE Throw("The operator was given a complex value", operator)
      [] operator = OPERATORS[9] ->
           IF IsArray(value)
           THEN Return(Bool(TRUE))
           ELSE Throw("The \"in\" operator requires an array value of non-zero length",
                      operator)
      [] operator = OPERATORS[10] ->
           IF /\ TypeOf(value) = "object"
              /\ value # Null
              /\ HasProp(value, "0")
              /\ HasProp(value, "1")
           THEN Return(Bool(TRUE))
           ELSE Throw("The \"bt\" operator requires an array-like value containing exactly two constants",
                      operator)

\* acceptableValue(operator, value): returns true or throws
acceptableValue(operator, value) ==
    CASE IsStringOp(operator) ->
           IF TypeOf(value) = "string"
           THEN Return(Bool(TRUE))
           ELSE Throw("The operator requires a string value", operator)
      [] IsScalarOp(operator) ->
           IF \/ TypeOf(value) = "string"
              \/ TypeOf(value) = "number"
              \/ TypeOf(value) = "boolean"
              \/ value = Null
           THEN Return(Bool(TRUE))
           ELSE Throw("The operator was given a complex value", operator)
      [] operator = OPERATORS[9] ->
           IF IsArray(value) /\ Len(value.elems) > 0
           THEN Return(Bool(TRUE))
           ELSE Throw("The \"in\" operator requires an array value of non-zero length",
                      operator)
      [] operator = OPERATORS[10] ->
           IF /\ TypeOf(value) = "object"
              /\ value # Null
              /\ HasProp(value, "0")
              /\ HasProp(value, "1")
           THEN Return(Bool(TRUE))
           ELSE Throw("The \"bt\" operator requires an array-like value containing exactly two constants",
                      operator)

\* E with the tail required to be empty: strings[0] === "" added
E_ReadsTail(strs, args) ==
    LET expression == strs[1]
        rest == Tail(strs)
        value == IF Len(args) >= 1 THEN args[1] ELSE Undefined
        restValues == IF Len(args) >= 1 THEN Tail(args) ELSE <<>>
    IN  IF Len(expression) > 2 /\ rest = << <<>> >> /\ Len(restValues) = 0
        THEN LET g == ExecGroups(expression)
             IN  IF Truthy(g.key) /\ isOperator(g.operator)
                 THEN LET a == acceptableValue(g.operator.s, value)
                      IN  IF a.kind = "throw" THEN a
                          ELSE Return(Obj([key |-> g.key,
                                           operator |-> g.operator,
                                           value |-> value,
                                           not |-> IF Truthy(g.not) THEN Num(1) ELSE Num(0)]))
                 ELSE Throw("Invalid expression - missing key or operator", expression)
        ELSE Throw("Only a single expression is supported", <<>>)

\* E with the tests of strings.length and values.length lost
E_NoArity(strs, args) ==
    LET expression == strs[1]
        value == IF Len(args) >= 1 THEN args[1] ELSE Undefined
    IN  IF Len(expression) > 2
        THEN LET g == ExecGroups(expression)
             IN  IF Truthy(g.key) /\ isOperator(g.operator)
                 THEN LET a == acceptableValue(g.operator.s, value)
                      IN  IF a.kind = "throw" THEN a
                          ELSE Return(Obj([key |-> g.key,
                                           operator |-> g.operator,
                                           value |-> value,
                                           not |-> IF Truthy(g.not) THEN Num(1) ELSE Num(0)]))
                 ELSE Throw("Invalid expression - missing key or operator", expression)
        ELSE Throw("Only a single expression is supported", <<>>)

\* E with the marker returned as it was captured: not: not
E_RawNot(strs, args) ==
    LET expression == strs[1]
        rest == Tail(strs)
        value == IF Len(args) >= 1 THEN args[1] ELSE Undefined
        restValues == IF Len(args) >= 1 THEN Tail(args) ELSE <<>>
    IN  IF Len(expression) > 2 /\ Len(rest) = 1 /\ Len(restValues) = 0
        THEN LET g == ExecGroups(expression)
             IN  IF Truthy(g.key) /\ isOperator(g.operator)
                 THEN LET a == acceptableValue(g.operator.s, value)
                      IN  IF a.kind = "throw" THEN a
                          ELSE Return(Obj([key |-> g.key,
                                           operator |-> g.operator,
                                           value |-> value,
                                           not |-> g.not]))
                 ELSE Throw("Invalid expression - missing key or operator", expression)
        ELSE Throw("Only a single expression is supported", <<>>)

\* parse of binary-filter-expression.ts, exported as E: strs is the
\* TemplateStringsArray, args the interpolated values
E(strs, args) ==
    LET expression == strs[1]
        rest == Tail(strs)
        value == IF Len(args) >= 1 THEN args[1] ELSE Undefined
        restValues == IF Len(args) >= 1 THEN Tail(args) ELSE <<>>
    IN  IF Len(expression) > 2 /\ Len(rest) = 1 /\ Len(restValues) = 0
        THEN LET g == ExecGroups(expression)
             IN  IF Truthy(g.key) /\ isOperator(g.operator)
                 THEN LET a == acceptableValue(g.operator.s, value)
                      IN  IF a.kind = "throw" THEN a
                          ELSE Return(Obj([key |-> g.key,
                                           operator |-> g.operator,
                                           value |-> value,
                                           not |-> IF Truthy(g.not) THEN Num(1) ELSE Num(0)]))
                 ELSE Throw("Invalid expression - missing key or operator", expression)
        ELSE Throw("Only a single expression is supported", <<>>)

\* isBinaryFilterExpression with the test "value" in value lost
isBinaryFilterExpression_NoValue(value, strict) ==
    /\ TypeOf(value) = "object"
    /\ value # Null
    /\ HasProp(value, "key")
    /\ HasProp(value, "operator")
    /\ TypeOf(GetProp(value, "key")) = "string"
    /\ TypeOf(GetProp(value, "operator")) = "string"
    /\ isOperator(GetProp(value, "operator"))
    /\ \/ ~strict
       \/ /\ HasProp(value, "not")
          /\ GetProp(value, "not") \in {Num(1), Num(0)}

\* isBinaryFilterExpression with the test of the field not lost
isBinaryFilterExpression_Loose(value, strict) ==
    /\ TypeOf(value) = "object"
    /\ value # Null
    /\ HasProp(value, "key")
    /\ HasProp(value, "operator")
    /\ HasProp(value, "value")
    /\ TypeOf(GetProp(value, "key")) = "string"
    /\ TypeOf(GetProp(value, "operator")) = "string"
    /\ isOperator(GetProp(value, "operator"))

\* isBinaryFilterExpression(value, strict)
isBinaryFilterExpression(value, strict) ==
    /\ TypeOf(value) = "object"
    /\ value # Null
    /\ HasProp(value, "key")
    /\ HasProp(value, "operator")
    /\ HasProp(value, "value")
    /\ TypeOf(GetProp(value, "key")) = "string"
    /\ TypeOf(GetProp(value, "operator")) = "string"
    /\ isOperator(GetProp(value, "operator"))
    /\ \/ ~strict
       \/ /\ HasProp(value, "not")
          /\ GetProp(value, "not") \in {Num(1), Num(0)}

(***************************************************************************)
(* logical-group-expression.ts                                             *)
(***************************************************************************)
\* String.prototype.trim
Trim(s) ==
    LET solid == { p \in 1..Len(s) : ~IsSpace(s[p]) }
    IN  IF solid = {} THEN <<>>
        ELSE SubSeq(s, CHOOSE p \in solid : \A q \in solid : p <= q,
                       CHOOSE p \in solid : \A q \in solid : p >= q)

KW_OR == <<"o", "r">>
KW_AND == <<"a", "n", "d">>

\* the sequence from its last element to its first
Reversed(s) == [p \in 1..Len(s) |-> s[Len(s) + 1 - p]]

\* G with the test values.length > filters.length lost
G_KeepsValid(strs, args) ==
    IF Len(args) = 0
    THEN Throw("A filter group may not be empty", <<>>)
    ELSE LET logicalExpressions == { Trim(strs[p]) : p \in 1..Len(strs) } \ {<<>>}
         IN  IF Cardinality(logicalExpressions) = 0 \/ Cardinality(logicalExpressions) = 1
             THEN LET or == IF KW_OR \in logicalExpressions THEN 1 ELSE 0
                      filters == SelectSeq(args, LAMBDA v : isBinaryFilterExpression(v, TRUE))
                  IN  Return(Obj([or |-> Num(or), filters |-> Arr(filters)]))
             ELSE Throw("Cannot parse logical expressions (filter group)", <<>>)

\* G with the test of logicalExpressions.size lost
G_AnyKeywords(strs, args) ==
    IF Len(args) = 0
    THEN Throw("A filter group may not be empty", <<>>)
    ELSE LET logicalExpressions == { Trim(strs[p]) : p \in 1..Len(strs) } \ {<<>>}
             or == IF KW_OR \in logicalExpressions THEN 1 ELSE 0
             filters == SelectSeq(args, LAMBDA v : isBinaryFilterExpression(v, TRUE))
         IN  IF Len(args) > Len(filters)
             THEN Throw("All values must be a BinaryFilterExpression", <<>>)
             ELSE Return(Obj([or |-> Num(or), filters |-> Arr(filters)]))

\* G with or decided by the other keyword: has("and") ? 0 : 1
G_OrUnlessAnd(strs, args) ==
    IF Len(args) = 0
    THEN Throw("A filter group may not be empty", <<>>)
    ELSE LET logicalExpressions == { Trim(strs[p]) : p \in 1..Len(strs) } \ {<<>>}
         IN  IF Cardinality(logicalExpressions) = 0 \/ Cardinality(logicalExpressions) = 1
             THEN LET or == IF KW_AND \in logicalExpressions THEN 0 ELSE 1
                      filters == SelectSeq(args, LAMBDA v : isBinaryFilterExpression(v, TRUE))
                  IN  IF Len(args) > Len(filters)
                      THEN Throw("All values must be a BinaryFilterExpression", <<>>)
                      ELSE Return(Obj([or |-> Num(or), filters |-> Arr(filters)]))
             ELSE Throw("Cannot parse logical expressions (filter group)", <<>>)

\* G with the filters collected from the last value to the first
G_Reversed(strs, args) ==
    IF Len(args) = 0
    THEN Throw("A filter group may not be empty", <<>>)
    ELSE LET logicalExpressions == { Trim(strs[p]) : p \in 1..Len(strs) } \ {<<>>}
         IN  IF Cardinality(logicalExpressions) = 0 \/ Cardinality(logicalExpressions) = 1
             THEN LET or == IF KW_OR \in logicalExpressions THEN 1 ELSE 0
                      filters == SelectSeq(args, LAMBDA v : isBinaryFilterExpression(v, TRUE))
                  IN  IF Len(args) > Len(filters)
                      THEN Throw("All values must be a BinaryFilterExpression", <<>>)
                      ELSE Return(Obj([or |-> Num(or), filters |-> Arr(Reversed(filters))]))
             ELSE Throw("Cannot parse logical expressions (filter group)", <<>>)

\* G with or left a boolean: or = logicalExpressions.has("or")
G_BoolOr(strs, args) ==
    IF Len(args) = 0
    THEN Throw("A filter group may not be empty", <<>>)
    ELSE LET logicalExpressions == { Trim(strs[p]) : p \in 1..Len(strs) } \ {<<>>}
         IN  IF Cardinality(logicalExpressions) = 0 \/ Cardinality(logicalExpressions) = 1
             THEN LET or == KW_OR \in logicalExpressions
                      filters == SelectSeq(args, LAMBDA v : isBinaryFilterExpression(v, TRUE))
                  IN  IF Len(args) > Len(filters)
                      THEN Throw("All values must be a BinaryFilterExpression", <<>>)
                      ELSE Return(Obj([or |-> Bool(or), filters |-> Arr(filters)]))
             ELSE Throw("Cannot parse logical expressions (filter group)", <<>>)

\* G with the values tested before the logical expressions
G_ExpressionsFirst(strs, args) ==
    IF Len(args) = 0
    THEN Throw("A filter group may not be empty", <<>>)
    ELSE LET logicalExpressions == { Trim(strs[p]) : p \in 1..Len(strs) } \ {<<>>}
             or == IF KW_OR \in logicalExpressions THEN 1 ELSE 0
             filters == SelectSeq(args, LAMBDA v : isBinaryFilterExpression(v, TRUE))
         IN  IF Len(args) > Len(filters)
             THEN Throw("All values must be a BinaryFilterExpression", <<>>)
             ELSE IF Cardinality(logicalExpressions) = 0 \/ Cardinality(logicalExpressions) = 1
                  THEN Return(Obj([or |-> Num(or), filters |-> Arr(filters)]))
                  ELSE Throw("Cannot parse logical expressions (filter group)", <<>>)

\* G with the test values.length === 0 lost
G_NoEmptyCheck(strs, args) ==
    LET logicalExpressions == { Trim(strs[p]) : p \in 1..Len(strs) } \ {<<>>}
    IN  IF Cardinality(logicalExpressions) = 0 \/ Cardinality(logicalExpressions) = 1
        THEN LET or == IF KW_OR \in logicalExpressions THEN 1 ELSE 0
                 filters == SelectSeq(args, LAMBDA v : isBinaryFilterExpression(v, TRUE))
             IN  IF Len(args) > Len(filters)
                 THEN Throw("All values must be a BinaryFilterExpression", <<>>)
                 ELSE Return(Obj([or |-> Num(or), filters |-> Arr(filters)]))
        ELSE Throw("Cannot parse logical expressions (filter group)", <<>>)

\* parse of logical-group-expression.ts, exported as G
G(strs, args) ==
    IF Len(args) = 0
    THEN Throw("A filter group may not be empty", <<>>)
    ELSE LET logicalExpressions == { Trim(strs[p]) : p \in 1..Len(strs) } \ {<<>>}
         IN  IF Cardinality(logicalExpressions) = 0 \/ Cardinality(logicalExpressions) = 1
             THEN LET or == IF KW_OR \in logicalExpressions THEN 1 ELSE 0
                      filters == SelectSeq(args, LAMBDA v : isBinaryFilterExpression(v, TRUE))
                  IN  IF Len(args) > Len(filters)
                      THEN Throw("All values must be a BinaryFilterExpression", <<>>)
                      ELSE Return(Obj([or |-> Num(or), filters |-> Arr(filters)]))
             ELSE Throw("Cannot parse logical expressions (filter group)", <<>>)

(***************************************************************************)
(* caelum-revelat.ts                                                       *)
(***************************************************************************)
\* filterParams with the predicate called in non-strict mode
filterParams_NonStrict(groups) ==
    LET filter_groups ==
          [p \in 1..Len(groups) |->
             IF isBinaryFilterExpression(groups[p], FALSE)
             THEN Obj([or |-> Num(0), filters |-> Arr(<<groups[p]>>)])
             ELSE groups[p]]
    IN  Return(Obj([filter_groups |-> Arr(filter_groups)]))

\* filterParams that wraps every item, the test of the predicate lost
filterParams_WrapAll(groups) ==
    LET filter_groups ==
          [p \in 1..Len(groups) |->
             Obj([or |-> Num(0), filters |-> Arr(<<groups[p]>>)])]
    IN  Return(Obj([filter_groups |-> Arr(filter_groups)]))

\* filterParams that keeps only the items it wraps
filterParams_DropsGroups(groups) ==
    LET kept == SelectSeq(groups, LAMBDA v : isBinaryFilterExpression(v, TRUE))
        filter_groups ==
          [p \in 1..Len(kept) |->
             Obj([or |-> Num(0), filters |-> Arr(<<kept[p]>>)])]
    IN  Return(Obj([filter_groups |-> Arr(filter_groups)]))

\* filterParams(...groups)
filterParams(groups) ==
    LET filter_groups ==
          [p \in 1..Len(groups) |->
             IF isBinaryFilterExpression(groups[p], TRUE)
             THEN Obj([or |-> Num(0), filters |-> Arr(<<groups[p]>>)])
             ELSE groups[p]]
    IN  Return(Obj([filter_groups |-> Arr(filter_groups)]))

(***************************************************************************)
(* The inputs of the calls                                                 *)
(***************************************************************************)
\* the literal before the value is pre key sep neg op post, each part
\* drawn from samples that include the malformed cases
PreSamples == {<<>>, <<"\n", "\t">>, <<"!">>, <<"a", " ">>}
KeySamples == {<<>>, <<"x">>, <<"k", "_", "1">>, NOT_MARK}
SepSamples == {<<>>, <<" ">>, <<"\n", " ">>}
NegSamples == {<<>>, NOT_MARK}
OperatorCodes == { OPERATORS[o] : o \in 1..Len(OPERATORS) }
OpSamples ==
    OperatorCodes \cup
    { <<>>, <<"y", "t">>, <<"g", "t", "x">>, <<"i", "n", "s", "i", "d", "e">> }
PostSamples == {<<>>, <<"\n">>, <<"!">>, <<" ", "y">>, <<" ", "l", "t">>}

Literals ==
    { pre \o key \o sep \o neg \o op \o post :
        pre \in PreSamples, key \in KeySamples, sep \in SepSamples,
        neg \in NegSamples, op \in OpSamples, post \in PostSamples }

\* the literals "key OP" and "key not_OP"
PlainLiterals ==
    { key \o <<" ">> \o neg \o op :
        key \in KeySamples \ {<<>>}, neg \in NegSamples, op \in OperatorCodes }

\* the literal segments after a value
TailSamples == {<<>>, <<" ", "!">>, <<"\n">>, <<" ", "l", "t", " ", "x">>}

ScalarSamples ==
    { Str(<<"B">>), Str(<<>>), Num(18), Num(0), Bool(TRUE), Bool(FALSE),
      Null, Undefined }
ArraySamples == { Arr([p \in 1..n |-> Num(p)]) : n \in 0..MaxElems }
ObjectSamples ==
    { Obj([name \in S |-> Num(7)]) :
        S \in SUBSET { IndexNames[p] : p \in 1..MaxElems } }
ValueSamples == ScalarSamples \cup ArraySamples \cup ObjectSamples

\* one value that each operator accepts: a string or a two-element array
FillSamples == { Str(<<"B">>), Arr(<<Num(1), Num(2)>>) }

\* the literal and the value of a template with one value: every literal
\* with a value some operator accepts, every plain literal with every value
E1Inputs ==
    (Literals \X FillSamples) \cup (PlainLiterals \X ValueSamples)

\* the literal segments of a group template
GroupSegSamples ==
    { <<>>, <<" ", "a", "n", "d", " ">>, <<"\n", "o", "r">>, <<"x", "o", "r">>,
      <<"A", "N", "D">> }

\* the values interpolated into a group template: two expressions as E
\* returns them, a raw string, a record that lacks the field not, a record
\* written by hand whose value E would refuse for its operator
GroupValueSamples ==
    { E(<<<<"x", " ", "e", "q">>, <<>>>>, <<Num(18)>>).value,
      E(<<<<"k", "_", "1", " ", "n", "o", "t", "_", "i", "n">>, <<>>>>,
        <<Arr(<<Num(1)>>)>>).value,
      Str(<<"x", " ", "e", "q", " ", "1">>),
      Obj([key |-> Str(<<"x">>), operator |-> Str(<<"e", "q">>), value |-> Num(18)]),
      Obj([key |-> Str(<<"x">>), operator |-> Str(<<"s", "w">>), value |-> Num(1),
           not |-> Num(0)]) }

\* a literal text that holds both keywords in one segment
MixedText == <<"a", "n", "d", " ", "o", "r">>

\* the values given to the predicate: the values of a group template, null,
\* undefined, an array, and records with one field missing or mistyped
PredicateSamples ==
    GroupValueSamples \cup
    { Null, Undefined, Num(1), Arr(<<Num(1), Num(2)>>), Obj(<<>>),
      Obj([key |-> Str(<<"x">>), operator |-> Str(<<"e", "q">>), not |-> Num(0)]),
      Obj([key |-> Str(<<"x">>), value |-> Num(18), not |-> Num(0)]),
      Obj([operator |-> Str(<<"e", "q">>), value |-> Num(18), not |-> Num(0)]),
      Obj([key |-> Str(<<"x">>), operator |-> Str(<<"e", "q">>), value |-> Undefined,
           not |-> Num(1)]),
      Obj([key |-> Str(<<"x">>), operator |-> Str(<<"e", "q">>), value |-> Null,
           not |-> Num(0)]),
      Obj([key |-> Num(1), operator |-> Str(<<"e", "q">>), value |-> Num(18),
           not |-> Num(0)]),
      Obj([key |-> Str(<<"x">>), operator |-> Num(1), value |-> Num(18),
           not |-> Num(0)]),
      Obj([key |-> Str(<<"x">>), operator |-> Str(<<"y", "t">>), value |-> Num(18),
           not |-> Num(0)]),
      Obj([key |-> Str(<<"x">>), operator |-> Str(<<"n", "o", "t", "_", "e", "q">>),
           value |-> Num(18), not |-> Num(1)]),
      Obj([key |-> Str(<<"x">>), operator |-> Str(<<"e", "q">>), value |-> Num(18),
           not |-> Num(2)]),
      Obj([key |-> Str(<<"x">>), operator |-> Str(<<"e", "q">>), value |-> Num(18),
           not |-> Bool(TRUE)]),
      Obj([key |-> Str(<<"x">>), operator |-> Str(<<"e", "q">>), value |-> Num(18),
           not |-> Str(<<"1">>)]),
      Obj([key |-> Str(<<"x">>), operator |-> Str(<<"e", "q">>), value |-> Num(18),
           not |-> Null]) }

\* groups as G returns them
GroupSamples ==
    { G(<< <<>>, <<" ", "a", "n", "d", " ">>, <<>> >>,
        << E(<<<<"x", " ", "e", "q">>, <<>>>>, <<Num(18)>>).value,
           E(<<<<"x", " ", "l", "t">>, <<>>>>, <<Num(0)>>).value >>).value,
      G(<< <<>>, <<"\n", "o", "r">>, <<>> >>,
        << E(<<<<"x", " ", "e", "q">>, <<>>>>, <<Num(18)>>).value,
           E(<<<<"x", " ", "l", "t">>, <<>>>>, <<Num(0)>>).value >>).value }

\* the arguments of filterParams
ItemSamples == GroupValueSamples \cup GroupSamples

(***************************************************************************)
(* The state machine: a caller makes one call at a time                    *)
(***************************************************************************)
Init ==
    /\ pc = "idle"
    /\ fn = "none"
    /\ strings = <<>>
    /\ values = <<>>
    /\ result = Return(Undefined)

\* E`lit` with no value
CallE0 ==
    /\ pc = "idle"
    /\ \E lit \in Literals :
         /\ strings' = <<lit>>
         /\ values' = <<>>
    /\ fn' = "E"
    /\ result' = E(strings', values')
    /\ pc' = "done"

\* E`lit${v}tail`
CallE1 ==
    /\ pc = "idle"
    /\ \E in \in E1Inputs, tail \in TailSamples :
         /\ strings' = <<in[1], tail>>
         /\ values' = <<in[2]>>
    /\ fn' = "E"
    /\ result' = E(strings', values')
    /\ pc' = "done"

\* E`lit${v}tail${v}tail...` with two or more values
CallEMany ==
    /\ pc = "idle"
    /\ \E lit \in Literals, v \in FillSamples, n \in 2..MaxValues :
         /\ strings' = <<lit>> \o [p \in 1..n |-> <<>>]
         /\ values' = [p \in 1..n |-> v]
    /\ fn' = "E"
    /\ result' = E(strings', values')
    /\ pc' = "done"

\* G`seg` with no value
CallG0 ==
    /\ pc = "idle"
    /\ \E seg \in GroupSegSamples \cup Literals \cup {MixedText} :
         /\ strings' = <<seg>>
         /\ values' = <<>>
    /\ fn' = "G"
    /\ result' = G(strings', values')
    /\ pc' = "done"

\* G`seg${v}seg${v}...seg` with one or more values
CallG ==
    /\ pc = "idle"
    /\ \E n \in 1..MaxValues :
         \E segs \in [1..(n + 1) -> GroupSegSamples],
            vs \in [1..n -> GroupValueSamples] :
              /\ strings' = segs
              /\ values' = vs
    /\ fn' = "G"
    /\ result' = G(strings', values')
    /\ pc' = "done"

\* filterParams(item, ...)
CallFilterParams ==
    /\ pc = "idle"
    /\ \E n \in 0..MaxValues :
         \E items \in [1..n -> ItemSamples] :
              values' = items
    /\ strings' = <<>>
    /\ fn' = "filterParams"
    /\ result' = filterParams(values')
    /\ pc' = "done"

\* isBinaryFilterExpression(value) and isBinaryFilterExpression(value, strict)
CallIsBinaryFilterExpression ==
    /\ pc = "idle"
    /\ \E v \in PredicateSamples :
         \/ /\ values' = <<v>>
            /\ result' = Return(Bool(isBinaryFilterExpression(v, TRUE)))
         \/ \E strict \in BOOLEAN :
              /\ values' = <<v, Bool(strict)>>
              /\ result' = Return(Bool(isBinaryFilterExpression(v, strict)))
    /\ strings' = <<>>
    /\ fn' = "isBinaryFilterExpression"
    /\ pc' = "done"

\* the caller takes the outcome
Finish ==
    /\ pc = "done"
    /\ pc' = "idle"
    /\ fn' = "none"
    /\ strings' = <<>>
    /\ values' = <<>>
    /\ result' = Return(Undefined)

Next ==
    \/ CallE0 \/ CallE1 \/ CallEMany \/ CallG0 \/ CallG \/ CallFilterParams
    \/ CallIsBinaryFilterExpression \/ Finish

Spec == Init /\ [][Next]_vars

(***************************************************************************)
(* The grammar of a literal as the specification states it: optional       *)
(* whitespace, a key of word characters, whitespace, a token that is an    *)
(* operator code or not_ and an operator code, optional whitespace.  It is *)
(* read by a scanner from the left, independently of EXPRESSION_RE.        *)
(***************************************************************************)
\* the first position from p on that holds no whitespace
SkipSpace(s, p) ==
    CHOOSE q \in p..(Len(s) + 1) :
        /\ \A r \in p..(q - 1) : IsSpace(s[r])
        /\ q = Len(s) + 1 \/ ~IsSpace(s[q])

\* the first position from p on that holds no word character
SkipWord(s, p) ==
    CHOOSE q \in p..(Len(s) + 1) :
        /\ \A r \in p..(q - 1) : IsWord(s[r])
        /\ q = Len(s) + 1 \/ ~IsWord(s[q])

KeyStart(s) == SkipSpace(s, 1)
KeyEnd(s) == SkipWord(s, KeyStart(s))
TokenStart(s) == SkipSpace(s, KeyEnd(s))
TokenEnd(s) == SkipWord(s, TokenStart(s))
KeyOf(s) == SubSeq(s, KeyStart(s), KeyEnd(s) - 1)
TokenOf(s) == SubSeq(s, TokenStart(s), TokenEnd(s) - 1)
NegatedCodes == { NOT_MARK \o op : op \in OperatorCodes }

WellFormed(s) ==
    /\ KeyEnd(s) > KeyStart(s)
    /\ TokenStart(s) > KeyEnd(s)
    /\ TokenOf(s) \in OperatorCodes \cup NegatedCodes
    /\ SkipSpace(s, TokenEnd(s)) = Len(s) + 1

HasMarker(s) == TokenOf(s) \in NegatedCodes

OperatorOf(s) ==
    IF HasMarker(s)
    THEN SubSeq(TokenOf(s), Len(NOT_MARK) + 1, Len(TokenOf(s)))
    ELSE TokenOf(s)

\* the literal with its whitespace reduced to one blank after the key
Minimal(s) == KeyOf(s) \o <<" ">> \o TokenOf(s)

\* the literal is "key OP": no marker, no whitespace but one blank
Plain(s) == WellFormed(s) /\ ~HasMarker(s) /\ s = Minimal(s)

\* the value has the positional elements 0 and 1 and no further one
ExactlyTwo(v) ==
    /\ v.t \in {"array", "object"}
    /\ HasProp(v, "0")
    /\ HasProp(v, "1")
    /\ \A p \in 3..Len(IndexNames) : ~HasProp(v, IndexNames[p])

\* the shape the table of the specification requires of the value
RequiredShape(op, v) ==
    CASE op \in {<<"s", "w">>, <<"e", "w">>, <<"c", "t">>} -> v.t = "string"
      [] op \in {<<"e", "q">>, <<"g", "t">>, <<"g", "t", "e">>,
                 <<"l", "t">>, <<"l", "t", "e">>} ->
           v.t \in {"string", "number", "boolean", "null"}
      [] op = <<"i", "n">> -> v.t = "array" /\ Len(v.elems) >= 1
      [] op = <<"b", "t">> -> ExactlyTwo(v)

\* a call of E with one value has returned or thrown
DoneE1 == pc = "done" /\ fn = "E" /\ Len(values) = 1

\* the Expression record
Expression(key, op, value, not) ==
    Obj([key |-> Str(key), operator |-> Str(op), value |-> value, not |-> Num(not)])

(***************************************************************************)
(* Claims                                                                  *)
(***************************************************************************)
\* C1: called with the literal "key OP" and one value of the shape OP
\* requires, E returns exactly {key, operator: OP, value, not: 0}
C1_PlainLiteralParses ==
    (DoneE1 /\ Plain(strings[1]) /\ RequiredShape(OperatorOf(strings[1]), values[1]))
        => result = Return(Expression(KeyOf(strings[1]), OperatorOf(strings[1]),
                                      values[1], 0))

C1_Witness ==
    /\ DoneE1
    /\ strings[1] = <<"k", "_", "1", " ", "i", "n">>
    /\ values[1] = Arr(<<Num(1), Num(2), Num(3)>>)
    /\ result.kind = "return"

\* C2: for a well-formed literal with not_ right before the operator code
\* E returns not = 1 and the bare code as operator, the key untouched;
\* without the marker it returns not = 0
C2_MarkerStripped ==
    (DoneE1 /\ WellFormed(strings[1]) /\ result.kind = "return")
        => /\ GetProp(result.value, "not") = Num(IF HasMarker(strings[1]) THEN 1 ELSE 0)
           /\ GetProp(result.value, "operator") = Str(OperatorOf(strings[1]))
           /\ GetProp(result.value, "operator").s \in OperatorCodes
           /\ GetProp(result.value, "key") = Str(KeyOf(strings[1]))

C2_Witness ==
    /\ DoneE1
    /\ strings[1] = <<"x", " ", "n", "o", "t", "_", "l", "t", "e">>
    /\ result.kind = "return"
    /\ GetProp(result.value, "not") = Num(1)
    /\ GetProp(result.value, "operator") = Str(<<"l", "t", "e">>)

\* C3: whitespace added before the key, between the key and the token and
\* after the token of a well-formed literal does not change the outcome:
\* it is the outcome of the minimal literal
C3_WhitespaceInvariant ==
    (DoneE1 /\ WellFormed(strings[1]))
        => result = E(<<Minimal(strings[1]), strings[2]>>, values)

C3_Witness ==
    /\ DoneE1
    /\ strings[1] = <<"\n", "\t", "k", "_", "1", "\n", " ", "n", "o", "t", "_",
                      "e", "q", "\n">>
    /\ result.kind = "return"
    /\ GetProp(result.value, "key") = Str(<<"k", "_", "1">>)

\* C4: E fails when it is given no value or two or more values, whatever
\* the literal
C4_ArityFails ==
    (pc = "done" /\ fn = "E" /\ Len(values) # 1) => result.kind = "throw"

C4_Witness ==
    /\ pc = "done"
    /\ fn = "E"
    /\ Len(values) = 2
    /\ Plain(strings[1])
    /\ RequiredShape(OperatorOf(strings[1]), values[1])
    /\ result.kind = "throw"

\* C5: E fails for every literal that is not exactly optional whitespace,
\* a key, whitespace, an optional not_, an operator code, optional whitespace
C5_MalformedFails ==
    (DoneE1 /\ ~WellFormed(strings[1])) => result.kind = "throw"

\* C6: for sw, ew and ct E returns exactly when the value is a string, and
\* otherwise throws the string-value error that names the operator
C6_StringOperators ==
    (DoneE1 /\ WellFormed(strings[1])
            /\ OperatorOf(strings[1]) \in {<<"s", "w">>, <<"e", "w">>, <<"c", "t">>})
        => /\ result.kind = "return" <=> values[1].t = "string"
           /\ values[1].t # "string"
                => result = Throw("The operator requires a string value",
                                  OperatorOf(strings[1]))

C6_Witness ==
    /\ DoneE1
    /\ strings[1] = <<"x", " ", "c", "t">>
    /\ values[1] = Arr(<<>>)
    /\ result.kind = "throw"

\* C7: for eq, gt, gte, lt and lte E returns exactly when the value is a
\* string, a number, a boolean or null, and otherwise throws the
\* complex-value error that names the operator
C7_ScalarOperators ==
    (DoneE1 /\ WellFormed(strings[1])
            /\ OperatorOf(strings[1]) \in {<<"e", "q">>, <<"g", "t">>, <<"g", "t", "e">>,
                                           <<"l", "t">>, <<"l", "t", "e">>})
        => /\ result.kind = "return"
                <=> values[1].t \in {"string", "number", "boolean", "null"}
           /\ values[1].t \notin {"string", "number", "boolean", "null"}
                => result = Throw("The operator was given a complex value",
                                  OperatorOf(strings[1]))

C7_Witness ==
    /\ DoneE1
    /\ strings[1] = <<"x", " ", "g", "t", "e">>
    /\ values[1] = Null
    /\ result.kind = "return"

\* C8: for in E returns exactly when the value is an array of length at
\* least one, and otherwise throws the non-zero-length error
C8_InOperator ==
    (DoneE1 /\ WellFormed(strings[1]) /\ OperatorOf(strings[1]) = <<"i", "n">>)
        => /\ result.kind = "return"
                <=> (values[1].t = "array" /\ Len(values[1].elems) >= 1)
           /\ ~(values[1].t = "array" /\ Len(values[1].elems) >= 1)
                => result = Throw("The \"in\" operator requires an array value of non-zero length",
                                  <<"i", "n">>)

C8_Witness ==
    /\ DoneE1
    /\ strings[1] = <<"x", " ", "i", "n">>
    /\ values[1] = Arr(<<>>)
    /\ result.kind = "throw"

\* C9: for bt E returns exactly when the value has the positional elements
\* 0 and 1 and no further element
C9_BetweenExactlyTwo ==
    (DoneE1 /\ WellFormed(strings[1]) /\ OperatorOf(strings[1]) = <<"b", "t">>)
        => (result.kind = "return" <=> ExactlyTwo(values[1]))

\* C10: G fails with the empty-group error when it is given no value,
\* whatever its literal segment
C10_EmptyGroupFails ==
    (pc = "done" /\ fn = "G" /\ Len(values) = 0)
        => result = Throw("A filter group may not be empty", <<>>)

C10_Witness ==
    /\ pc = "done"
    /\ fn = "G"
    /\ values = <<>>
    /\ strings = << <<"\n", "o", "r">> >>
    /\ result.kind = "throw"

\* a call of G, of filterParams has returned or thrown
DoneG == pc = "done" /\ fn = "G"
DoneFP == pc = "done" /\ fn = "filterParams"

\* the literal segments of the call, trimmed
Trimmed == { Trim(strings[p]) : p \in 1..Len(strings) }

\* the singleton conjunction group around an item
Singleton(item) == Obj([or |-> Num(0), filters |-> Arr(<<item>>)])

\* C11: G fails whenever one of its values does not satisfy the strict
\* expression predicate, however many expressions come with it
C11_NonExpressionFails ==
    (DoneG /\ \E p \in 1..Len(values) : ~isBinaryFilterExpression(values[p], TRUE))
        => result.kind = "throw"

C11_Witness ==
    /\ DoneG
    /\ Len(values) = 2
    /\ isBinaryFilterExpression(values[1], TRUE)
    /\ values[2].t = "string"
    /\ result = Throw("All values must be a BinaryFilterExpression", <<>>)

\* C12: G fails whenever its trimmed literal segments hold both "and" and
\* "or", wherever they stand
C12_MixedKeywordsFail ==
    (DoneG /\ KW_AND \in Trimmed /\ KW_OR \in Trimmed) => result.kind = "throw"

C12_Witness ==
    /\ DoneG
    /\ Len(values) = 2
    /\ \A p \in 1..2 : isBinaryFilterExpression(values[p], TRUE)
    /\ strings = << <<>>, <<"\n", "o", "r">>, <<" ", "a", "n", "d", " ">> >>
    /\ result = Throw("Cannot parse logical expressions (filter group)", <<>>)

\* C13: when G returns, or is 1 exactly when a trimmed literal segment is
\* "or", and 0 otherwise
C13_OrFlag ==
    (DoneG /\ result.kind = "return")
        => GetProp(result.value, "or") = Num(IF KW_OR \in Trimmed THEN 1 ELSE 0)

C13_Witness ==
    /\ DoneG
    /\ Len(values) = 2
    /\ strings = << <<>>, <<"\n", "o", "r">>, <<>> >>
    /\ result.kind = "return"
    /\ GetProp(result.value, "or") = Num(1)

\* C14: when G returns, filters is the sequence of its values: the same
\* elements in the same order
C14_FiltersAreValues ==
    (DoneG /\ result.kind = "return")
        => GetProp(result.value, "filters") = Arr(values)

C14_Witness ==
    /\ DoneG
    /\ Len(values) = 2
    /\ values[1] # values[2]
    /\ result.kind = "return"
    /\ GetProp(result.value, "filters").elems[2] = values[2]

\* C15: filterParams maps its items position by position: an item that
\* satisfies the strict predicate becomes its singleton group with or = 0,
\* any other item stays as it is
C15_PositionByPosition ==
    DoneFP
        => /\ result.kind = "return"
           /\ GetProp(result.value, "filter_groups").t = "array"
           /\ Len(GetProp(result.value, "filter_groups").elems) = Len(values)
           /\ \A p \in 1..Len(values) :
                GetProp(result.value, "filter_groups").elems[p] =
                    IF isBinaryFilterExpression(values[p], TRUE)
                    THEN Singleton(values[p])
                    ELSE values[p]

C15_Witness ==
    /\ DoneFP
    /\ Len(values) = 2
    /\ values[1] \in GroupSamples
    /\ isBinaryFilterExpression(values[2], TRUE)
    /\ GetProp(result.value, "filter_groups") = Arr(<<values[1], Singleton(values[2])>>)

\* C16: filterParams called with no argument returns the empty object: the
\* result has no field at all
C16_ZeroArgumentsEmptyObject ==
    (DoneFP /\ Len(values) = 0)
        => /\ result.kind = "return"
           /\ DOMAIN result.value.props = {}

C18_WireFormat ==
    /\ (pc = "done" /\ fn = "E" /\ result.kind = "return")
          => GetProp(result.value, "not") \in {Num(0), Num(1)}
    /\ (DoneG /\ result.kind = "return")
          => GetProp(result.value, "or") \in {Num(0), Num(1)}
    /\ DoneFP
          => \A p \in 1..Len(values) :
                isBinaryFilterExpression(values[p], TRUE)
                    => GetProp(GetProp(result.value, "filter_groups").elems[p], "or")
                         \in {Num(0), Num(1)}

C18_Witness ==
    /\ DoneG
    /\ Len(values) = 1
    /\ strings = << <<"\n", "o", "r">>, <<>> >>
    /\ result.kind = "return"
    /\ GetProp(result.value, "or") = Num(1)

\* C19: G fails whenever a trimmed literal segment is neither empty nor
\* "and" nor "or"
C19_UnknownSegmentFails ==
    (DoneG /\ \E seg \in Trimmed : seg \notin {<<>>, KW_AND, KW_OR})
        => result.kind = "throw"

\* the filter is typed as an Expression: key a string, operator one of the
\* ten codes, not 0 or 1, value present
WellTyped(f) ==
    /\ f.t = "object"
    /\ HasProp(f, "key")
    /\ GetProp(f, "key").t = "string"
    /\ HasProp(f, "operator")
    /\ GetProp(f, "operator").t = "string"
    /\ GetProp(f, "operator").s \in OperatorCodes
    /\ HasProp(f, "not")
    /\ GetProp(f, "not") \in {Num(0), Num(1)}
    /\ HasProp(f, "value")

\* C20: every Group G returns has at least one filter, and every filter is
\* typed as an Expression and has a value of the shape its operator requires
C20_FiltersValid ==
    (DoneG /\ result.kind = "return")
        => /\ Len(GetProp(result.value, "filters").elems) >= 1
           /\ \A p \in 1..Len(GetProp(result.value, "filters").elems) :
                LET f == GetProp(result.value, "filters").elems[p]
                IN  /\ WellTyped(f)
                    /\ acceptableValue(GetProp(f, "operator").s,
                                       GetProp(f, "value")).kind = "return"

\* C20 as amended: every Group G returns has at least one filter, and every
\* filter is typed as an Expression, with a value field of any shape
C20_FiltersWellTyped ==
    (DoneG /\ result.kind = "return")
        => /\ Len(GetProp(result.value, "filters").elems) >= 1
           /\ \A p \in 1..Len(GetProp(result.value, "filters").elems) :
                WellTyped(GetProp(result.value, "filters").elems[p])

C20_Witness ==
    /\ DoneG
    /\ Len(values) = 2
    /\ result.kind = "return"
    /\ acceptableValue(GetProp(values[1], "operator").s,
                       GetProp(values[1], "value")).kind = "throw"
    /\ WellTyped(GetProp(result.value, "filters").elems[1])

\* C21: with one value and a malformed literal, the empty literal and the
\* literals of one or two characters included, the failure of E is the
\* invalid-expression error, never the arity error
C21_MalformedIsInvalidExpression ==
    (DoneE1 /\ ~WellFormed(strings[1]) /\ result.kind = "throw")
        => result.message = "Invalid expression - missing key or operator"

\* an occurrence of key, whitespace, operator token starts at position i
\* of s: word characters from i, whitespace, then a token that is an
\* operator code or not_ and an operator code
Occurs(s, i) ==
    /\ IsWord(s[i])
    /\ LET ts == SkipSpace(s, SkipWord(s, i))
       IN  /\ ts > SkipWord(s, i)
           /\ SubSeq(s, ts, SkipWord(s, ts) - 1) \in OperatorCodes \cup NegatedCodes

\* the position in s of the token of the occurrence that starts at i
Place(s, i) == SkipSpace(s, SkipWord(s, i))

\* the starts of the occurrences in s
Occurrences(s) == { i \in 1..Len(s) : Occurs(s, i) }

\* the leftmost occurrence, as a literal of its own
FirstOccurrence(s) ==
    SubSeq(s, CHOOSE i \in Occurrences(s) : \A h \in Occurrences(s) : i <= h, Len(s))

\* op stands in s as a whole token: whitespace or whitespace and not_
\* before it, no word character after it
CompleteToken(s, op) ==
    \E p \in 2..Len(s) :
        /\ LooksAt(s, p, op)
        /\ ~WordAt(s, p + Len(op))
        /\ \/ IsSpace(s[p - 1])
           \/ /\ p > Len(NOT_MARK) + 1
              /\ LooksAt(s, p - Len(NOT_MARK), NOT_MARK)
              /\ IsSpace(s[p - Len(NOT_MARK) - 1])

\* the token with its marker removed
BareToken(s) ==
    IF Len(TokenOf(s)) > Len(NOT_MARK) /\ LooksAt(TokenOf(s), 1, NOT_MARK)
    THEN SubSeq(TokenOf(s), Len(NOT_MARK) + 1, Len(TokenOf(s)))
    ELSE TokenOf(s)

\* the literal is whitespace, key, whitespace, token, whitespace, and the
\* token is an operator code continued by further word characters
ContinuedCode(s) ==
    /\ KeyEnd(s) > KeyStart(s)
    /\ TokenStart(s) > KeyEnd(s)
    /\ SkipSpace(s, TokenEnd(s)) = Len(s) + 1
    /\ BareToken(s) \notin OperatorCodes
    /\ \E op \in OperatorCodes :
          Len(BareToken(s)) > Len(op) /\ LooksAt(BareToken(s), 1, op)

\* C22: the operator E returns is the whole operator token of the literal:
\* gte and lte are never cut to gt and lt, and a token that continues an
\* operator code with word characters is not taken for that operator
C22_CompleteOperatorToken ==
    /\ (DoneE1 /\ result.kind = "return")
          => CompleteToken(strings[1], GetProp(result.value, "operator").s)
    /\ (DoneE1 /\ result.kind = "return" /\ WellFormed(strings[1]))
          => GetProp(result.value, "operator").s = OperatorOf(strings[1])
    /\ (DoneE1 /\ ContinuedCode(strings[1])) => result.kind = "throw"

C22_Witness ==
    /\ DoneE1
    /\ strings[1] = <<"x", " ", "g", "t", "e">>
    /\ result.kind = "return"
    /\ GetProp(result.value, "operator") = Str(<<"g", "t", "e">>)

\* C23: when key, whitespace, operator occurs at more than one place of the
\* literal, E works on the leftmost occurrence: it returns its key, marker
\* and operator, or fails on the value with its operator
C23_FirstOccurrence ==
    (DoneE1 /\ Cardinality({ Place(strings[1], i) : i \in Occurrences(strings[1]) }) > 1)
        => LET first == FirstOccurrence(strings[1])
           IN  /\ result.kind = "return"
                    => /\ GetProp(result.value, "key") = Str(KeyOf(first))
                       /\ GetProp(result.value, "operator") = Str(OperatorOf(first))
                       /\ GetProp(result.value, "not")
                            = Num(IF HasMarker(first) THEN 1 ELSE 0)
               /\ result.kind = "throw" => result.detail = OperatorOf(first)

C23_Witness ==
    /\ DoneE1
    /\ strings[1] = <<"x", " ", "n", "o", "t", "_", "e", "q", " ", "l", "t">>
    /\ result.kind = "return"
    /\ GetProp(result.value, "key") = Str(<<"x">>)
    /\ GetProp(result.value, "operator") = Str(<<"e", "q">>)
    /\ GetProp(result.value, "not") = Num(1)

\* a call of the predicate has returned
DoneP == pc = "done" /\ fn = "isBinaryFilterExpression"

\* the predicate as the specification states it
IsExpression(v, strict) ==
    /\ v.t \in {"object", "array"}
    /\ HasProp(v, "key") /\ GetProp(v, "key").t = "string"
    /\ HasProp(v, "operator") /\ GetProp(v, "operator").t = "string"
    /\ GetProp(v, "operator").s \in OperatorCodes
    /\ HasProp(v, "value")
    /\ strict => HasProp(v, "not") /\ GetProp(v, "not") \in {Num(0), Num(1)}

\* C24: isBinaryFilterExpression(v, strict) is true exactly when v is a
\* composite value with a string key, an operator among the ten codes, a
\* value field of any content and, in strict mode (the default), not 0 or 1
C24_PredicateExact ==
    DoneP
        => result = Return(Bool(IsExpression(values[1],
                                Len(values) = 1 \/ values[Len(values)] = Bool(TRUE))))

C24_Witness ==
    /\ DoneP
    /\ values = << Obj([key |-> Str(<<"x">>), operator |-> Str(<<"e", "q">>),
                        value |-> Num(18)]), Bool(FALSE) >>
    /\ result = Return(Bool(TRUE))

\* G accepts v as the one member of a group
Accepts(v) == G(<< <<>>, <<>> >>, <<v>>).kind = "return"

\* C25: G accepts a value exactly when filterParams wraps it, and both take
\* every Expression that E returns
C25_CallSitesAgree ==
    /\ DoneFP
          => \A p \in 1..Len(values) :
                Accepts(values[p])
                    <=> GetProp(result.value, "filter_groups").elems[p]
                          = Singleton(values[p])
    /\ (DoneG /\ Len(values) = 1 /\ Trimmed = {<<>>})
          => (result.kind = "return"
                <=> filterParams(values)
                      = Return(Obj([filter_groups |-> Arr(<<Singleton(values[1])>>)])))
    /\ (pc = "done" /\ fn = "E" /\ result.kind = "return")
          => /\ Accepts(result.value)
             /\ filterParams(<<result.value>>)
                  = Return(Obj([filter_groups |-> Arr(<<Singleton(result.value)>>)]))

C25_Witness ==
    /\ DoneFP
    /\ Len(values) = 2
    /\ Accepts(values[1])
    /\ ~Accepts(values[2])
    /\ values[2] = Obj([key |-> Str(<<"x">>), operator |-> Str(<<"e", "q">>),
                         value |-> Num(18)])
    /\ GetProp(result.value, "filter_groups")
         = Arr(<<Singleton(values[1]), values[2]>>)

\* C26: G tests emptiness first, the keywords second and the values last:
\* with both keywords and a value that is no expression it fails with the
\* mixed-operators error, with no value it fails with the empty-group error
C26_ValidationOrder ==
    /\ (DoneG /\ Len(values) = 0)
          => result = Throw("A filter group may not be empty", <<>>)
    /\ (DoneG /\ Len(values) > 0 /\ KW_AND \in Trimmed /\ KW_OR \in Trimmed)
          => result = Throw("Cannot parse logical expressions (filter group)", <<>>)

C26_Witness ==
    /\ DoneG
    /\ Len(values) = 2
    /\ KW_AND \in Trimmed
    /\ KW_OR \in Trimmed
    /\ values[1].t = "string"
    /\ result = Throw("Cannot parse logical expressions (filter group)", <<>>)

\* C27: with one value, the literal segment after the value changes
\* nothing: the outcome of E is the one it has with an empty tail
C27_TailIgnored ==
    DoneE1 => result = E(<<strings[1], <<>>>>, values)

C27_Witness ==
    /\ DoneE1
    /\ strings = << <<"x", " ", "e", "q">>, <<" ", "l", "t", " ", "x">> >>
    /\ result.kind = "return"
    /\ GetProp(result.value, "operator") = Str(<<"e", "q">>)

====
